---- MODULE Spec2Model ----
(***************************************************************************)
(* A model of the MCP client layer and the tool-calling loop of the       *)
(* Telegram bot:                                                           *)
(*   - StdioMCPClient   (src/mcp_client/client.py)  JSON-RPC over a pipe   *)
(*   - HTTPMCPClient / SSE_MCP_Client               readiness polling      *)
(*   - ToolManager      (src/bot/tool_manager.py)   registry and meta tool *)
(*   - LLMSelector      (src/bot/llm_utils.py)      orchestration loop     *)
(* Every asyncio task is a process whose position is a pc; a step of the   *)
(* model is the code between two suspension points (await).                *)
(***************************************************************************)
EXTENDS Integers, Sequences, FiniteSets, TLC

\* ------------------------------------------------------------------ bounds
MaxId == 3           \* request ids the model lets _send_request allocate
MaxCloses == 2       \* calls of close() on one client
MaxTrials == 3       \* trial calls of one HTTP/SSE wait_until_ready

\* The caller tasks of one StdioMCPClient: the first issues the tool calls,
\* the second the resource calls (the four calls share one code path).
Callers == {1, 2}
OpsOf(c) == IF c = 1 THEN {"list_tools", "execute_tool"}
            ELSE {"list_resources", "access_resource"}
Ids == 1..MaxId
NoId == 0
NoOne == 0
NoPayload == 0

\* ---------------------------------------------------------------- state
VARIABLES
    \* StdioMCPClient
    next_id,          \* self._next_id
    pending,          \* keys of self._pending_requests
    future,           \* the asyncio.Future of every allocated id
    lock,             \* holder of self._lock, NoOne when free
    initialized,      \* self._initialized
    stdin,            \* the messages written to process.stdin, in order
    stdinClosed,      \* process.stdin.is_closing()
    reader,           \* self._reader_task: "running" | "done"
    proc,             \* the provider process: "running" | "exited"
    task,             \* the caller tasks
    deadline,         \* wait_until_ready: has the caller's deadline passed
    closePc,          \* position of the task running close()
    closeLog,         \* the steps close() has gone through, in order
    closes,           \* number of close() calls started
    unflushed         \* bytes written to stdin that the pipe has not taken

stdioVars == <<next_id, pending, future, lock, initialized, stdin, stdinClosed,
               reader, proc, task, deadline, closePc, closeLog, closes,
               unflushed>>

VARIABLES
    \* wait_until_ready of an HTTPMCPClient or SSE_MCP_Client
    pollKind,         \* the client's class: "http" | "sse" ("none" before the call)
    pollPc,           \* position of the task running wait_until_ready
    pollRet,          \* what wait_until_ready gave its caller
    pollDeadline,     \* has start_time + timeout passed
    pollTrials        \* what the server did on each trial GET /tools so far

pollVars == <<pollKind, pollPc, pollRet, pollDeadline, pollTrials>>

VARIABLES
    \* ToolManager
    mcp_clients,      \* keys of self._mcp_clients, in insertion order
    tool_ret,         \* outcome of the last execute_mcp_tool call
    closed_clients,   \* the clients close_mcp_clients has closed
    catalog           \* the last get_available_mcp_tools call

toolVars == <<mcp_clients, tool_ret, closed_clients, catalog>>

VARIABLES
    \* LLMSelector.generate_response
    loopPc,           \* position of the task running generate_response
    loop_i,           \* the loop variable i (provider calls made so far)
    current_prompt,   \* the prompt of the next provider call
    llm_response,     \* response: what the provider returned last
    tool_result,      \* what execute_mcp_tool returned last, stderr folded in
    loopRet           \* what generate_response gave its caller

loopVars == <<loopPc, loop_i, current_prompt, llm_response, tool_result,
              loopRet>>

VARIABLES
    \* StdioMCPClient, the captured stderr
    stderr_queue,     \* self._stderr_queue: the lines not yet drained
    stderr_captured,  \* the number of lines add_stderr_message was given
    stderr_drains,    \* what each get_stderr_messages call returned
    stderr_task       \* the task around read_stderr: "running" | "done"

stderrVars == <<stderr_queue, stderr_captured, stderr_drains, stderr_task>>

VARIABLES
    \* SSE_MCP_Client.execute_tool
    sse_ret           \* the last call: what the server did, what came back

sseVars == <<sse_ret>>

vars == <<stdioVars, pollVars, toolVars, loopVars, stderrVars, sseVars>>

\* What the steps of one component leave alone.
nonStdioVars == <<pollVars, toolVars, loopVars, stderrVars, sseVars>>
nonPollVars == <<stdioVars, toolVars, loopVars, stderrVars, sseVars>>
nonToolVars == <<stdioVars, pollVars, loopVars, stderrVars, sseVars>>
nonLoopVars == <<stdioVars, pollVars, stderrVars, sseVars>>
nonStderrVars == <<stdioVars, pollVars, toolVars, loopVars, sseVars>>
nonSseVars == <<stdioVars, pollVars, toolVars, loopVars, stderrVars>>

\* ------------------------------------------------------- StdioMCPClient
UserOps == {"list_tools", "list_resources", "execute_tool", "access_resource"}

\* The JSON-RPC method each user-level call sends.
Method(op) ==
    CASE op = "list_tools" -> "tools/list"
      [] op = "list_resources" -> "resources/list"
      [] op = "execute_tool" -> "tools/call"
      [] op = "access_resource" -> "resources/read"
      [] op = "wait_until_ready" -> "tools/list"

UserMethods == {Method(op) : op \in UserOps}

NoFuture == [state |-> "none", val |-> NoPayload]
IdleTask == [op |-> "none", pc |-> "idle", id |-> NoId, ret |-> "none",
             val |-> NoPayload, exc |-> "none", trial |-> "none"]

StdioInit ==
    /\ next_id = 1
    /\ pending = {}
    /\ future = [i \in Ids |-> NoFuture]
    /\ lock = NoOne
    /\ initialized = FALSE
    /\ stdin = <<>>
    /\ stdinClosed = FALSE
    /\ reader = "running"
    /\ proc = "running"
    /\ task = [c \in Callers |-> IdleTask]
    /\ deadline = [c \in Callers |-> FALSE]
    /\ closePc = "idle"
    /\ closeLog = <<>>
    /\ closes = 0
    /\ unflushed = FALSE

\* The position of a task inside _initialize_connection / _send_request.
Handshaking(t) == t.pc \in {"init_lock", "init_drain", "init_wait",
                            "init_cancelled", "notif_lock", "notif_drain"}
Requesting(t) == t.pc \in {"req_lock", "req_drain", "req_wait", "req_cancelled"}

\* A user-level call that never runs the handshake.
NeedsHandshake_Never == FALSE

\* list_tools .. access_resource, line "if not self._initialized": must the
\* call run the handshake first.
NeedsHandshake == ~initialized

\* Entry of list_tools / list_resources / execute_tool / access_resource.
Call(c, op) ==
    /\ task[c].pc \in {"idle", "done"}
    /\ next_id <= MaxId
    /\ task' = [task EXCEPT ![c] =
                  [IdleTask EXCEPT !.op = op,
                                   !.pc = IF NeedsHandshake THEN "init_lock"
                                          ELSE "req_lock"]]
    /\ UNCHANGED <<next_id, pending, future, lock, initialized, stdin,
                   stdinClosed, reader, proc, deadline,
                   closePc, closeLog, closes,
                   unflushed, nonStdioVars>>

\* A handshake that swallows its failure and goes on to the notification.
OnException_GoesOn(t, e) == [t EXCEPT !.pc = "notif_lock", !.exc = e]

\* A call that swallows the exception and hands back an ordinary result.
OnException_Silent(t, e) == [t EXCEPT !.pc = "done", !.ret = "result"]

\* What an exception e raised at task t's position turns the task into:
\* _initialize_connection re-raises; the four user-level calls swallow it and
\* return [] or {"error": ...}; wait_until_ready swallows a handshake failure
\* and sleeps, and receives [] from list_tools when the trial call failed.
OnException(t, e) ==
    IF t.op = "wait_until_ready"
    THEN IF Handshaking(t)
         THEN [t EXCEPT !.pc = "sleep", !.exc = e]
         ELSE [t EXCEPT !.pc = "done", !.exc = e, !.trial = "failed",
                        !.ret = "true"]
    ELSE [t EXCEPT !.pc = "done", !.exc = e, !.ret = "error"]

\* A counter that is read and left as it is.
IncrementedId_Stuck == next_id

\* "request_id = self._next_id; self._next_id += 1": the counter afterwards.
IncrementedId == next_id + 1

\* A lock that whoever asks for it gets.
LockFree_Always == TRUE

\* "async with self._lock": can the lock be taken now.
LockFree == lock = NoOne

\* _send_request up to its first suspension point: under the lock allocate the
\* id, register the future, write the framed request.
_send_request(c) ==
    /\ task[c].pc \in {"init_lock", "req_lock"}
    /\ LockFree
    /\ next_id <= MaxId
    /\ lock' = c
    /\ next_id' = IncrementedId
    /\ pending' = pending \cup {next_id}
    /\ future' = [future EXCEPT ![next_id] = [state |-> "pending", val |-> NoPayload]]
    /\ stdin' = IF stdinClosed THEN stdin
                ELSE Append(stdin,
                       [method |-> IF task[c].pc = "init_lock" THEN "initialize"
                                   ELSE Method(task[c].op),
                        id |-> next_id])
    /\ task' = [task EXCEPT ![c].id = next_id,
                            ![c].pc = IF task[c].pc = "init_lock"
                                      THEN "init_drain" ELSE "req_drain"]
    /\ UNCHANGED <<initialized, stdinClosed, reader, proc, deadline, closePc, closeLog, closes,
                   unflushed, nonStdioVars>>

\* _send_notification("initialized") up to its suspension point.
_send_notification(c) ==
    /\ task[c].pc = "notif_lock"
    /\ LockFree
    /\ lock' = c
    /\ stdin' = IF stdinClosed THEN stdin
                ELSE Append(stdin, [method |-> "initialized", id |-> NoId])
    /\ task' = [task EXCEPT ![c].pc = "notif_drain"]
    /\ UNCHANGED <<next_id, pending, future, initialized, stdinClosed, reader,
                   proc, deadline, closePc, closeLog, closes,
                   unflushed, nonStdioVars>>

\* stdin.drain() returns: the lock is released. After the notification
\* _initialize_connection sets _initialized and the caller goes on to its
\* request.
DrainOk(c) ==
    /\ task[c].pc \in {"init_drain", "req_drain", "notif_drain"}
    /\ ~stdinClosed
    /\ lock' = NoOne
    /\ initialized' = IF task[c].pc = "notif_drain" THEN TRUE ELSE initialized
    /\ task' = [task EXCEPT ![c].pc =
                  CASE task[c].pc = "init_drain" -> "init_wait"
                    [] task[c].pc = "req_drain" -> "req_wait"
                    [] task[c].pc = "notif_drain" -> "req_lock"]
    /\ UNCHANGED <<next_id, pending, future, stdin, stdinClosed, reader, proc,
                   deadline, closePc, closeLog, closes,
                   unflushed, nonStdioVars>>

\* stdin.drain() raises (the pipe is closed or broken): the lock is released
\* by "async with", the registered future stays in the map.
DrainFail(c) ==
    /\ task[c].pc \in {"init_drain", "req_drain", "notif_drain"}
    /\ stdinClosed \/ proc = "exited"
    /\ lock' = NoOne
    /\ task' = [task EXCEPT ![c] = OnException(task[c], "ConnectionError")]
    /\ UNCHANGED <<next_id, pending, future, initialized, stdin, stdinClosed,
                   reader, proc, deadline, closePc, closeLog,
                   closes,
                   unflushed, nonStdioVars>>

\* asyncio.wait_for(future) returns: the future was completed by the reader.
AwaitFuture(c) ==
    /\ task[c].pc \in {"init_wait", "req_wait"}
    /\ future[task[c].id].state \in {"result", "exception"}
    /\ LET f == future[task[c].id]
           t == task[c]
       IN  task' = [task EXCEPT ![c] =
                 IF f.state = "exception" THEN OnException(t, "Exception")
                 ELSE IF t.pc = "init_wait" THEN [t EXCEPT !.pc = "notif_lock"]
                 ELSE IF t.op = "wait_until_ready"
                      THEN [t EXCEPT !.pc = "done", !.ret = "true",
                                     !.trial = "ok"]
                      ELSE [t EXCEPT !.pc = "done", !.ret = "result", !.val = f.val]]
    /\ UNCHANGED <<next_id, pending, future, lock, initialized, stdin,
                   stdinClosed, reader, proc, deadline, closePc,
                   closeLog, closes,
                   unflushed, nonStdioVars>>

\* The 30 s of wait_for expire: the future the caller waits on is cancelled;
\* the caller resumes at a later turn of the event loop.
TimeoutFire(c) ==
    /\ task[c].pc \in {"init_wait", "req_wait"}
    /\ future[task[c].id].state = "pending"
    /\ future' = [future EXCEPT ![task[c].id].state = "cancelled"]
    /\ task' = [task EXCEPT ![c].pc = IF task[c].pc = "init_wait"
                                      THEN "init_cancelled" ELSE "req_cancelled"]
    /\ UNCHANGED <<next_id, pending, lock, initialized, stdin, stdinClosed,
                   reader, proc, deadline, closePc, closeLog,
                   closes,
                   unflushed, nonStdioVars>>

\* A timeout handler that leaves the entry in the map.
PendingAfterTimeout_NoPop(id) == pending

\* A timeout handler that drops every entry of the map.
PendingAfterTimeout_Clear(id) == {}

\* except asyncio.TimeoutError: the pending map after pop(request_id, None).
PendingAfterTimeout(id) == pending \ {id}

\* The caller resumes in "except asyncio.TimeoutError" and raises TimeoutError.
TimeoutResume(c) ==
    /\ task[c].pc \in {"init_cancelled", "req_cancelled"}
    /\ pending' = PendingAfterTimeout(task[c].id)
    /\ task' = [task EXCEPT ![c] = OnException(task[c], "TimeoutError")]
    /\ UNCHANGED <<next_id, future, lock, initialized, stdin, stdinClosed,
                   reader, proc, deadline, closePc, closeLog,
                   closes,
                   unflushed, nonStdioVars>>

\* ------------------------------------------------ wait_until_ready (stdio)
\* Entry of wait_until_ready: start_time is taken, the loop begins.
WaitUntilReady(c) ==
    /\ task[c].pc \in {"idle", "done"}
    /\ next_id <= MaxId
    /\ task' = [task EXCEPT ![c] =
                  [IdleTask EXCEPT !.op = "wait_until_ready", !.pc = "loop"]]
    /\ deadline' = [deadline EXCEPT ![c] = FALSE]
    /\ UNCHANGED <<next_id, pending, future, lock, initialized, stdin,
                   stdinClosed, reader, proc, closePc, closeLog,
                   closes,
                   unflushed, nonStdioVars>>

\* The clock passes start_time + timeout of a running wait_until_ready.
DeadlineElapses(c) ==
    /\ task[c].op = "wait_until_ready"
    /\ task[c].pc # "done"
    /\ ~deadline[c]
    /\ deadline' = [deadline EXCEPT ![c] = TRUE]
    /\ UNCHANGED <<next_id, pending, future, lock, initialized, stdin,
                   stdinClosed, reader, proc, task, closePc,
                   closeLog, closes,
                   unflushed, nonStdioVars>>

\* The while test of wait_until_ready, then _initialize_connection (which
\* returns at once when _initialized) and list_tools.
WaitLoop(c) ==
    /\ task[c].pc = "loop"
    /\ task' = [task EXCEPT ![c] =
                  IF deadline[c]
                  THEN [@ EXCEPT !.pc = "done", !.ret = "false"]
                  ELSE [@ EXCEPT !.pc = IF NeedsHandshake THEN "init_lock"
                                        ELSE "req_lock"]]
    /\ UNCHANGED <<next_id, pending, future, lock, initialized, stdin,
                   stdinClosed, reader, proc, deadline, closePc,
                   closeLog, closes,
                   unflushed, nonStdioVars>>

\* asyncio.sleep(1) after a failed attempt returns.
WaitSleep(c) ==
    /\ task[c].pc = "sleep"
    /\ task' = [task EXCEPT ![c].pc = "loop"]
    /\ UNCHANGED <<next_id, pending, future, lock, initialized, stdin,
                   stdinClosed, reader, proc, deadline, closePc,
                   closeLog, closes,
                   unflushed, nonStdioVars>>

\* ------------------------------------------------------- _read_responses
\* The result the provider computes for the request with this id: every
\* request has its own.
PayloadFor(id) == id
\* What readline() can deliver: a JSON-RPC response to a request the provider
\* was sent (result, error, or neither member), a message without id, a line
\* that is not JSON, a blank line.
Lines ==
    {[kind |-> "result", id |-> i, val |-> PayloadFor(i)] : i \in Ids}
    \cup [kind : {"error", "bare"}, id : Ids, val : {NoPayload}]
    \cup [kind : {"noid", "malformed", "blank"}, id : {NoId}, val : {NoPayload}]

WasSent(id) == \E k \in 1..Len(stdin) : stdin[k].id = id

\* "id" in response and response["id"] in self._pending_requests
Matches(response) ==
    /\ response.kind \in {"result", "error", "bare"}
    /\ response.id \in pending

\* Correlation by arrival order: the oldest pending request is completed.
request_id_ArrivalOrder(response) ==
    CHOOSE i \in pending : \A j \in pending : i <= j

\* request_id = response["id"]
request_id(response) == response.id

\* future.set_result / future.set_exception: a future that is no longer
\* pending raises InvalidStateError, which the reader logs; it stays as it is.
Complete(f, response) ==
    IF f.state # "pending" THEN f
    ELSE CASE response.kind = "result" -> [state |-> "result", val |-> response.val]
           [] response.kind = "error" -> [state |-> "exception", val |-> NoPayload]
           [] OTHER -> f

\* A reader that ends at a line it cannot parse.
ReaderAfterLine_Strict(line) ==
    IF line.kind = "malformed" THEN "done" ELSE reader

\* "continue", "except json.JSONDecodeError", "except Exception": the inner
\* try keeps whatever the processing of a line raises inside the loop.
ReaderAfterLine(line) == reader

\* One turn of the reader loop on a line read from stdout.
ReadLine(line) ==
    /\ reader = "running"
    /\ line.id # NoId => WasSent(line.id)
    /\ IF Matches(line)
       THEN /\ pending' = pending \ {request_id(line)}
            /\ future' = [future EXCEPT ![request_id(line)] = Complete(@, line)]
       ELSE UNCHANGED <<pending, future>>
    /\ reader' = ReaderAfterLine(line)
    /\ UNCHANGED <<next_id, lock, initialized, stdin, stdinClosed,
                   proc, task, deadline, closePc, closeLog, closes,
                   unflushed, nonStdioVars>>

\* readline() returns b"" (end of stream) or raises: the reader task ends.
ReadEnd ==
    /\ reader = "running"
    /\ reader' = "done"
    /\ UNCHANGED <<next_id, pending, future, lock, initialized, stdin,
                   stdinClosed, proc, task, deadline, closePc,
                   closeLog, closes,
                   unflushed, nonStdioVars>>

_read_responses == (\E line \in Lines : ReadLine(line)) \/ ReadEnd

\* The provider process exits.
ProcExit ==
    /\ proc = "running"
    /\ proc' = "exited"
    /\ UNCHANGED <<next_id, pending, future, lock, initialized, stdin,
                   stdinClosed, reader, task, deadline, closePc,
                   closeLog, closes,
                   unflushed, nonStdioVars>>

\* ------------------------------------------------------------- close()
\* close() starts: the reader task is cancelled and awaited; the reader
\* catches CancelledError and ends, so the await returns.
Close ==
    /\ closePc \in {"idle", "returned"}
    /\ closes < MaxCloses
    /\ closes' = closes + 1
    /\ reader' = "done"
    /\ closePc' = "stdin"
    /\ closeLog' = Append(closeLog, "cancel_reader")
    /\ UNCHANGED <<next_id, pending, future, lock, initialized, stdin,
                   stdinClosed, proc, task, deadline,
                   unflushed, nonStdioVars>>

\* A stdin that never reports that it is closing.
IsClosing_Never == FALSE

\* self.process.stdin.is_closing()
IsClosing == stdinClosed

\* "if stdin and not stdin.is_closing(): stdin.close()". The transport closes
\* the pipe once its buffer is empty; the buffer holds bytes (full) when the
\* provider has not been reading what the client wrote.
CloseStdin(full) ==
    /\ closePc = "stdin"
    /\ full => (~IsClosing /\ stdin # <<>> /\ proc = "running")
    /\ stdinClosed' = TRUE
    /\ unflushed' = full
    /\ closePc' = IF IsClosing THEN "graceful_wait" ELSE "wait_closed"
    /\ closeLog' = IF IsClosing THEN closeLog
                   ELSE Append(closeLog, "stdin_close")
    /\ UNCHANGED <<next_id, pending, future, lock, initialized, stdin, reader,
                   proc, task, deadline, closes, nonStdioVars>>

\* "await stdin.wait_closed()", outside every wait_for: it returns when the
\* pipe has been closed, and raises (exc) when the pipe broke because the
\* process is gone. While bytes stay buffered for a live process it waits.
CloseWaitClosed(exc) ==
    /\ closePc = "wait_closed"
    /\ IF exc THEN proc = "exited" ELSE ~unflushed
    /\ closePc' = IF exc THEN "except" ELSE "graceful_wait"
    /\ closeLog' = Append(closeLog, IF exc THEN "wait_closed_raised"
                                    ELSE "wait_closed")
    /\ UNCHANGED <<next_id, pending, future, lock, initialized, stdin,
                   stdinClosed, reader, proc, task, deadline, closes,
                   unflushed, nonStdioVars>>

\* The provider reads its standard input: the buffered bytes leave.
ProcReads ==
    /\ unflushed
    /\ proc = "running"
    /\ unflushed' = FALSE
    /\ UNCHANGED <<next_id, pending, future, lock, initialized, stdin,
                   stdinClosed, reader, proc, task, deadline, closePc,
                   closeLog, closes, nonStdioVars>>

\* A graceful wait that always runs into its timeout.
WaitReturns_Never == FALSE

\* "await asyncio.wait_for(self.process.wait(), timeout=3)" returns instead of
\* raising TimeoutError: the process has exited.
WaitReturns == proc = "exited"

\* wait_for(process.wait(), timeout=3): the process has exited, or the 3 s
\* expire and close() kills the process.
CloseGracefulWait ==
    /\ closePc = "graceful_wait"
    /\ IF WaitReturns
       THEN /\ closePc' = "returned"
            /\ closeLog' = Append(closeLog, "exited")
       ELSE /\ closePc' = "kill_wait"
            /\ closeLog' = closeLog \o <<"graceful_timeout", "kill">>
    /\ UNCHANGED <<next_id, pending, future, lock, initialized, stdin,
                   stdinClosed, reader, proc, task, deadline,
                   closes,
                   unflushed, nonStdioVars>>

\* wait_for(process.wait(), timeout=2) after the kill: the process has exited,
\* or the 2 s expire and close() logs a warning; either way close() returns.
CloseKillWait ==
    /\ closePc = "kill_wait"
    /\ closePc' = "returned"
    /\ closeLog' = Append(closeLog, IF proc = "exited" THEN "exited"
                                    ELSE "kill_timeout")
    /\ UNCHANGED <<next_id, pending, future, lock, initialized, stdin,
                   stdinClosed, reader, proc, task, deadline,
                   closes,
                   unflushed, nonStdioVars>>

\* "except Exception" of close(): kill, wait at most 1 s, swallow everything.
CloseExcept ==
    /\ closePc = "except"
    /\ closePc' = "returned"
    /\ closeLog' = closeLog \o <<"kill", "swallowed">>
    /\ UNCHANGED <<next_id, pending, future, lock, initialized, stdin,
                   stdinClosed, reader, proc, task, deadline,
                   closes,
                   unflushed, nonStdioVars>>

close ==
    \/ Close
    \/ \E full \in BOOLEAN : CloseStdin(full)
    \/ \E exc \in BOOLEAN : CloseWaitClosed(exc)
    \/ CloseGracefulWait
    \/ CloseKillWait
    \/ CloseExcept

\* ------------------------------ wait_until_ready (HTTP and event stream)
\* What the server does with a GET {base}/tools: a 200 with a JSON object, a
\* 200 with a JSON array, a 200 whose body is not JSON, an error status, or no
\* answer at all (connection refused, transport timeout).
ServerOutcomes == {"ok", "json_array", "not_json", "error_status", "unreachable"}

Returns(v) == [kind |-> "return", val |-> v]
Raises(e) == [kind |-> "raise", val |-> e]

\* HTTPMCPClient.list_tools: raise_for_status, response.json(); the two httpx
\* errors are caught and turned into [].
HttpListTools(outcome) ==
    CASE outcome = "ok" -> Returns("tools")
      [] outcome = "json_array" -> Returns("tools")
      [] outcome = "not_json" -> Raises("JSONDecodeError")
      [] outcome = "error_status" -> Returns("empty")
      [] outcome = "unreachable" -> Returns("empty")

\* SSE_MCP_Client._send_request_and_wait_for_sse_response("GET", "tools").
SseSendRequest(outcome) ==
    CASE outcome = "ok" -> Returns("object")
      [] outcome = "json_array" -> Returns("array")
      [] outcome = "not_json" -> Raises("JSONDecodeError")
      [] outcome = "error_status" -> Returns("error_object")
      [] outcome = "unreachable" -> Returns("error_object")

\* SSE_MCP_Client.list_tools: response.get("tools", []).
SseListTools(outcome) ==
    LET response == SseSendRequest(outcome)
    IN  IF response.kind = "raise" THEN response
        ELSE CASE response.val = "object" -> Returns("tools")
               [] response.val = "error_object" -> Returns("empty")
               [] response.val = "array" -> Raises("AttributeError")

\* The except clauses of the two wait_until_ready loops.
HttpCatches(e) == e \in {"RequestError", "HTTPStatusError"}
SseCatches(e) == TRUE

PollInit ==
    /\ pollKind = "none"
    /\ pollPc = "idle"
    /\ pollRet = "none"
    /\ pollDeadline = FALSE
    /\ pollTrials = <<>>

\* wait_until_ready of a client of the given class is called: start_time is
\* taken.
PollStart(kind) ==
    /\ pollPc = "idle"
    /\ pollKind' = kind
    /\ pollPc' = "loop"
    /\ UNCHANGED <<pollRet, pollDeadline, pollTrials, nonPollVars>>

\* The clock passes start_time + timeout.
PollDeadlineElapses ==
    /\ pollPc \in {"loop", "request", "sleep"}
    /\ ~pollDeadline
    /\ pollDeadline' = TRUE
    /\ UNCHANGED <<pollKind, pollPc, pollRet, pollTrials, nonPollVars>>

\* The while test: past the deadline return False, else send the trial GET.
PollLoop ==
    /\ pollPc = "loop"
    /\ pollDeadline \/ Len(pollTrials) < MaxTrials
    /\ IF pollDeadline
       THEN pollPc' = "done" /\ pollRet' = "false"
       ELSE pollPc' = "request" /\ pollRet' = pollRet
    /\ UNCHANGED <<pollKind, pollDeadline, pollTrials, nonPollVars>>

\* The server's answer reaches list_tools; wait_until_ready returns True when
\* list_tools returned, sleeps when it caught the exception, and lets any
\* other exception out.
PollAnswer(outcome) ==
    /\ pollPc = "request"
    /\ pollTrials' = Append(pollTrials, outcome)
    /\ LET r == IF pollKind = "http" THEN HttpListTools(outcome)
                ELSE SseListTools(outcome)
           caught == IF pollKind = "http" THEN HttpCatches(r.val)
                     ELSE SseCatches(r.val)
       IN  IF r.kind = "return" THEN pollPc' = "done" /\ pollRet' = "true"
           ELSE IF caught THEN pollPc' = "sleep" /\ pollRet' = pollRet
           ELSE pollPc' = "done" /\ pollRet' = "raised"
    /\ UNCHANGED <<pollKind, pollDeadline, nonPollVars>>

\* asyncio.sleep(1) returns.
PollSleep ==
    /\ pollPc = "sleep"
    /\ pollPc' = "loop"
    /\ UNCHANGED <<pollKind, pollRet, pollDeadline, pollTrials, nonPollVars>>

\* --------------------------------------------------- strings and JSON
\* A Python str is a TLA+ string; the Cyrillic literals of the source are
\* written here in Latin letters.

MAX_TOOL_OUTPUT_LENGTH == 2000
MAX_TOOL_CALL_ITERATIONS == 3

\* s * n
RECURSIVE Repeat(_, _)
Repeat(s, n) ==
    IF n = 0 THEN ""
    ELSE IF n = 1 THEN s
    ELSE Repeat(s, n \div 2) \o Repeat(s, n - (n \div 2))

\* sep.join(strs)
RECURSIVE JoinSeq(_, _)
JoinSeq(strs, sep) ==
    IF Len(strs) = 0 THEN ""
    ELSE IF Len(strs) = 1 THEN strs[1]
    ELSE strs[1] \o sep \o JoinSeq(Tail(strs), sep)

\* A JSON value (what json.loads gives): a str, a list or a dict whose items
\* are <<key, value>> pairs in insertion order.
Str(s) == [t |-> "str", s |-> s, items |-> <<>>]
List(xs) == [t |-> "list", s |-> "", items |-> xs]
Obj(kvs) == [t |-> "obj", s |-> "", items |-> kvs]

\* key in d, d[key], d.get(key, default), d[key] = value
Has(d, key) == \E i \in DOMAIN d.items : d.items[i][1] = key
Get(d, key) == d.items[CHOOSE i \in DOMAIN d.items : d.items[i][1] = key][2]
GetOr(d, key, default) == IF Has(d, key) THEN Get(d, key) ELSE default
SetKey(d, key, value) ==
    IF Has(d, key)
    THEN Obj([i \in DOMAIN d.items |->
                IF d.items[i][1] = key THEN <<key, value>> ELSE d.items[i]])
    ELSE Obj(Append(d.items, <<key, value>>))

\* How json.dumps(..., ensure_ascii=False) writes one character of a str.
EscapeChar(ch) ==
    CASE ch = "\"" -> "\\\""
      [] ch = "\\" -> "\\\\"
      [] ch = "\n" -> "\\n"
      [] OTHER -> ch

\* ... and a whole str, without its quotes.
RECURSIVE EscapeStr(_)
EscapeStr(s) ==
    IF Len(s) = 0 THEN ""
    ELSE IF Len(s) = 1 THEN EscapeChar(s)
    ELSE EscapeStr(SubSeq(s, 1, Len(s) \div 2))
         \o EscapeStr(SubSeq(s, (Len(s) \div 2) + 1, Len(s)))

\* json.dumps(value) with the default separators.
RECURSIVE json_dumps(_)
json_dumps(v) ==
    CASE v.t = "str" -> "\"" \o EscapeStr(v.s) \o "\""
      [] v.t = "list" ->
           "[" \o JoinSeq([i \in DOMAIN v.items |-> json_dumps(v.items[i])], ", ")
               \o "]"
      [] v.t = "obj" ->
           "{" \o JoinSeq([i \in DOMAIN v.items |->
                             "\"" \o EscapeStr(v.items[i][1]) \o "\": "
                                  \o json_dumps(v.items[i][2])], ", ")
               \o "}"

\* str(value) of a value that is not a str: Python's repr of lists and dicts.
RECURSIVE py_repr(_)
py_repr(v) ==
    CASE v.t = "str" -> "'" \o v.s \o "'"
      [] v.t = "list" ->
           "[" \o JoinSeq([i \in DOMAIN v.items |-> py_repr(v.items[i])], ", ")
               \o "]"
      [] v.t = "obj" ->
           "{" \o JoinSeq([i \in DOMAIN v.items |->
                             "'" \o v.items[i][1] \o "': "
                                 \o py_repr(v.items[i][2])], ", ")
               \o "}"

\* str(value)
py_str(v) == IF v.t = "str" THEN v.s ELSE py_repr(v)

\* ---------------------------------------------------------- ToolManager
\* The names under which providers are registered, and a name that never is.
Servers == {"brave", "meta"}
UnknownServer == "ghost"
MaxTools == 1        \* tools one provider's list_tools returns

\* A create_mcp_client that looks at the url before the type.
create_mcp_client_UrlFirst(config) ==
    IF config.url THEN Returns("HTTPMCPClient")
    ELSE IF config.type = "stdio" /\ config.process THEN Returns("StdioMCPClient")
    ELSE Raises("ValueError")

\* create_mcp_client: the client class a server configuration selects.
create_mcp_client(config) ==
    IF config.type = "stdio" /\ config.process THEN Returns("StdioMCPClient")
    ELSE IF config.type = "sse" /\ config.url THEN Returns("SSE_MCP_Client")
    ELSE IF config.url THEN Returns("HTTPMCPClient")
    ELSE Raises("ValueError")

ServerConfigs == [type : {"stdio", "sse", "http"}, url : BOOLEAN, process : BOOLEAN]
StdioConfig == [type |-> "stdio", url |-> FALSE, process |-> TRUE]

Registered(server_name) ==
    \E i \in DOMAIN mcp_clients : mcp_clients[i].name = server_name

\* self._mcp_clients[server_name] = client: a dict keeps the position of a key
\* that is assigned again.
StoreClient(server_name, class) ==
    IF Registered(server_name)
    THEN [i \in DOMAIN mcp_clients |->
            IF mcp_clients[i].name = server_name
            THEN [name |-> server_name, class |-> class] ELSE mcp_clients[i]]
    ELSE Append(mcp_clients, [name |-> server_name, class |-> class])

\* A registration that closes the client it replaces.
ClosedAfterRegister_ClosesOld(server_name) ==
    closed_clients \cup {mcp_clients[i] : i \in {j \in DOMAIN mcp_clients :
                                                  mcp_clients[j].name = server_name}}

\* "if server_name in self._mcp_clients": the replaced client is logged about
\* and left as it is.
ClosedAfterRegister(server_name) == closed_clients

\* ToolManager.register_mcp_server; a configuration create_mcp_client rejects
\* raises before the registry is touched.
register_mcp_server(server_name, config) ==
    /\ mcp_clients' = IF create_mcp_client(config).kind = "raise" THEN mcp_clients
                      ELSE StoreClient(server_name, create_mcp_client(config).val)
    /\ closed_clients' = IF create_mcp_client(config).kind = "raise"
                         THEN closed_clients
                         ELSE ClosedAfterRegister(server_name)
    /\ UNCHANGED <<tool_ret, catalog, nonToolVars>>

\* ToolManager.close_mcp_clients: close() of every registered client, an
\* exception of one logged and passed over; the registry keeps its entries.
close_mcp_clients ==
    /\ closed_clients' =
         closed_clients \cup {mcp_clients[i] : i \in DOMAIN mcp_clients}
    /\ UNCHANGED <<mcp_clients, tool_ret, catalog, nonToolVars>>

\* ToolInfo(server_name, tool_name, description, input_schema)
ToolInfo(server_name, tool_name, description, input_schema) ==
    [server_name |-> server_name, tool_name |-> tool_name,
     description |-> description, input_schema |-> input_schema]

_get_meta_tool_info ==
    ToolInfo("meta", "list_mcp_tools", "Lists all available MCP tools.", Obj(<<>>))

\* What list_tools of one client gives: the provider's tool dicts, or an
\* exception.
ToolDicts ==
    {Obj(<< <<"name", Str("brave_web_search")>>, <<"description", Str("Web search")>> >>),
     Obj(<< <<"name", Str("list_mcp_tools")>> >>),
     Obj(<<>>)}
ToolLists == UNION {[1..k -> ToolDicts] : k \in 0..MaxTools}
ListReplies == [ok : {TRUE}, tools : ToolLists] \cup [ok : {FALSE}, tools : {<<>>}]
Listings == [{mcp_clients[i].name : i \in DOMAIN mcp_clients} -> ListReplies]

\* A _fetch_server_tools that lets the tools keep no trace of their provider.
_fetch_server_tools_Untagged(server_name, reply) ==
    IF ~reply.ok THEN <<>>
    ELSE [i \in DOMAIN reply.tools |->
            ToolInfo("", GetOr(reply.tools[i], "name", Str("unknown")).s,
                     GetOr(reply.tools[i], "description", Str("")).s,
                     GetOr(reply.tools[i], "input_schema", Obj(<<>>)))]

\* ToolManager._fetch_server_tools: the ToolInfo list of one provider, [] when
\* its list_tools raised.
_fetch_server_tools(server_name, reply) ==
    IF ~reply.ok THEN <<>>
    ELSE [i \in DOMAIN reply.tools |->
            ToolInfo(server_name,
                     GetOr(reply.tools[i], "name", Str("unknown")).s,
                     GetOr(reply.tools[i], "description", Str("")).s,
                     GetOr(reply.tools[i], "input_schema", Obj(<<>>)))]

\* all_tools.extend(tools_list) over the results of gather, in dict order.
RECURSIVE ExtendAll(_, _)
ExtendAll(k, listing) ==
    IF k > Len(mcp_clients) THEN <<>>
    ELSE _fetch_server_tools(mcp_clients[k].name, listing[mcp_clients[k].name])
         \o ExtendAll(k + 1, listing)

\* ToolManager.get_available_mcp_tools
get_available_mcp_tools(listing) == <<_get_meta_tool_info>> \o ExtendAll(1, listing)

\* A meta branch that formats the whole catalog.
FilterMeta_Keep(all_tools) == all_tools

\* "filtered_tools": the catalog without the meta tool.
FilterMeta(all_tools) ==
    SelectSeq(all_tools,
              LAMBDA tool : ~(tool.server_name = "meta"
                              /\ tool.tool_name = "list_mcp_tools"))

\* One entry of the meta tool's listing.
FormatTool(tool) ==
    "- Server: " \o tool.server_name \o ", Tool: " \o tool.tool_name
    \o "\n  Description: " \o tool.description
    \o "\n  Input schema: " \o json_dumps(tool.input_schema)

NoToolsText == "No tools available."

\* The meta branch of execute_mcp_tool.
MetaListing(listing) ==
    LET filtered_tools == FilterMeta(get_available_mcp_tools(listing))
        formatted_tools == [i \in DOMAIN filtered_tools |->
                              FormatTool(filtered_tools[i])]
    IN  Obj(<< <<"result", Str(IF Len(formatted_tools) > 0
                                THEN JoinSeq(formatted_tools, "\n")
                                ELSE NoToolsText)>> >>)

\* An execute_mcp_tool that passes the arguments on as they came.
FixArguments_Keep(tool_name, arguments) == arguments

\* The brave_web_search fixup: arguments['query'] = arguments.pop('q').
FixArguments(tool_name, arguments) ==
    IF tool_name = "brave_web_search" /\ Has(arguments, "q")
       /\ ~Has(arguments, "query")
    THEN Obj(Append(SelectSeq(arguments.items, LAMBDA kv : kv[1] # "q"),
                    <<"query", Get(arguments, "q")>>))
    ELSE arguments

\* Normalization of what the client's execute_tool returned.
NormalizeResult(result) ==
    IF result.t # "obj" THEN Obj(<< <<"result", result>> >>)
    ELSE IF Has(result, "content")
    THEN LET content == Get(result, "content")
         IN  IF content.t = "list" /\ Len(content.items) > 0
             THEN IF content.items[1].t = "obj" /\ Has(content.items[1], "text")
                  THEN Obj(<< <<"result", Get(content.items[1], "text")>> >>)
                  ELSE Obj(<< <<"result", Str(py_str(content.items[1]))>> >>)
             ELSE IF content.t = "str" THEN Obj(<< <<"result", content>> >>)
             ELSE Obj(<< <<"result", Str(py_str(content))>> >>)
    ELSE IF Has(result, "result") THEN result
    ELSE Obj(<< <<"result", result>> >>)

NoCall == [made |-> FALSE, tool_name |-> "", arguments |-> Obj(<<>>)]
NoValue == Obj(<<>>)
ToolReturns(v, call) ==
    [kind |-> "return", val |-> v, exc |-> "", message |-> "", call |-> call]
ToolRaises(e, message) ==
    [kind |-> "raise", val |-> NoValue, exc |-> e, message |-> message,
     call |-> NoCall]

\* An execute_mcp_tool that finds a client for every name.
LookupFails_Never(server_name) == FALSE

\* "mcp_client = self._mcp_clients.get(server_name); if not mcp_client"
LookupFails(server_name) == ~Registered(server_name)

\* An execute_mcp_tool without the check of the required parameter.
MissingQuery_Never(tool_name, arguments) == FALSE

\* "if 'query' not in arguments", for brave_web_search after the fixup.
MissingQuery(tool_name, arguments) ==
    tool_name = "brave_web_search" /\ ~Has(arguments, "query")

\* ToolManager.execute_mcp_tool. listing is what every client's list_tools
\* gives during the call, reply what the client's execute_tool gives.
execute_mcp_tool(server_name, tool_name, arguments, listing, reply) ==
    IF server_name = "meta" /\ tool_name = "list_mcp_tools"
    THEN ToolReturns(MetaListing(listing), NoCall)
    ELSE IF LookupFails(server_name) THEN ToolRaises("ValueError",
                    "MCP server '" \o server_name \o "' not registered.")
    ELSE IF arguments.t \notin {"obj", "proto"}
    THEN ToolReturns(Obj(<< <<"error", Str("Invalid arguments format")>> >>), NoCall)
    ELSE LET fixed == FixArguments(tool_name, Obj(arguments.items))
         IN  IF MissingQuery(tool_name, fixed)
             THEN ToolReturns(
                    Obj(<< <<"error", Str("Missing required 'query' parameter")>> >>),
                    NoCall)
             ELSE ToolReturns(NormalizeResult(reply),
                              [made |-> TRUE, tool_name |-> tool_name,
                               arguments |-> fixed])

\* What a caller can pass as arguments: dicts, a mapping that dict() accepts,
\* a str (dict() raises on it).
ArgumentValues ==
    {Obj(<<>>),
     Obj(<< <<"q", Str("x")>> >>),
     Obj(<< <<"query", Str("x")>> >>),
     Obj(<< <<"q", Str("x")>>, <<"query", Str("y")>> >>),
     Obj(<< <<"q", Str("x")>>, <<"count", Str("5")>> >>),
     [t |-> "proto", s |-> "", items |-> << <<"q", Str("x")>> >>],
     Str("x")}

ToolNames == {"brave_web_search", "list_mcp_tools", "read_file"}

\* What execute_tool of a client can return for a tool whose output is text:
\* the shapes of an MCP result, the client's own {"error": ...}, a bare list.
Replies(text) ==
    LET item == Obj(<< <<"type", Str("text")>>, <<"text", Str(text)>> >>)
        image == Obj(<< <<"type", Str("image")>> >>)
    IN  {Obj(<< <<"content", List(<<item>>)>> >>),
         Obj(<< <<"content", List(<<item>>)>>, <<"result", Str("other")>> >>),
         Obj(<< <<"content", List(<<image, item>>)>> >>),
         Obj(<< <<"content", List(<<>>)>> >>),
         Obj(<< <<"content", Str(text)>> >>),
         Obj(<< <<"result", Str(text)>> >>),
         Obj(<< <<"data", Str(text)>> >>),
         Obj(<< <<"error", Str("Request tools/call timed out after 30 seconds")>> >>),
         List(<<Str(text)>>)}

NoReply == Obj(<<>>)
NoListing == <<>>
IsMetaCall(server_name, tool_name) ==
    server_name = "meta" /\ tool_name = "list_mcp_tools"

\* Does execute_mcp_tool reach the client's execute_tool with this call.
ReachesClient(server_name, tool_name, arguments) ==
    /\ ~IsMetaCall(server_name, tool_name)
    /\ execute_mcp_tool(server_name, tool_name, arguments, NoListing,
                        NoReply).call.made

NoToolRet == [server_name |-> "", tool_name |-> "", arguments |-> Obj(<<>>),
              reply |-> NoReply, all_tools |-> <<>>,
              out |-> ToolReturns(NoValue, NoCall)]

NoCatalog == [asked |-> <<>>, listing |-> <<>>, all_tools |-> <<>>]

ToolInit ==
    /\ mcp_clients = <<>>
    /\ tool_ret = NoToolRet
    /\ closed_clients = {}
    /\ catalog = NoCatalog

\* A call of ToolManager.execute_mcp_tool against the registry as it is.
ExecuteMcpTool(server_name, tool_name, arguments) ==
    /\ \E listing \in (IF IsMetaCall(server_name, tool_name) THEN Listings
                       ELSE {NoListing}) :
       \E reply \in (IF ReachesClient(server_name, tool_name, arguments)
                     THEN Replies("ok") ELSE {NoReply}) :
         tool_ret' =
           [server_name |-> server_name,
            tool_name |-> tool_name,
            arguments |-> arguments,
            reply |-> reply,
            all_tools |-> IF IsMetaCall(server_name, tool_name)
                          THEN get_available_mcp_tools(listing) ELSE <<>>,
            out |-> execute_mcp_tool(server_name, tool_name, arguments,
                                     listing, reply)]
    /\ UNCHANGED <<mcp_clients, closed_clients, catalog, nonToolVars>>

\* A call of ToolManager.get_available_mcp_tools: every registered client is
\* asked for its tools, in the order of the dict.
GetAvailableMcpTools(listing) ==
    /\ catalog' = [asked |-> mcp_clients, listing |-> listing,
                   all_tools |-> get_available_mcp_tools(listing)]
    /\ UNCHANGED <<mcp_clients, tool_ret, closed_clients, nonToolVars>>

\* ------------------------------------------ LLMSelector.generate_response
\* What provider.generate_response returns: a str or a ToolCall.
TextResponse(text) ==
    [kind |-> "text", text |-> text, server_name |-> "", tool_name |-> "",
     arguments |-> Obj(<<>>)]
ToolCall(server_name, tool_name, arguments) ==
    [kind |-> "call", text |-> "", server_name |-> server_name,
     tool_name |-> tool_name, arguments |-> arguments]
NoResponse ==
    [kind |-> "none", text |-> "", server_name |-> "", tool_name |-> "",
     arguments |-> Obj(<<>>)]

UserPrompts == {"hi"}
ModelTexts == {"answer"}
ModelResponses ==
    {TextResponse(text) : text \in ModelTexts}
    \cup {ToolCall("meta", "list_mcp_tools", Obj(<<>>)),
          ToolCall("brave", "brave_web_search", Obj(<< <<"q", Str("x")>> >>)),
          ToolCall("brave", "brave_web_search", Obj(<<>>)),
          ToolCall(UnknownServer, "read_file", Obj(<<>>))}

\* The texts a tool returns to the loop: short ones, and those whose
\* serialization {"result": "..."} falls on either side of the limit.
ToolTexts ==
    {"ok",
     Repeat("a", MAX_TOOL_OUTPUT_LENGTH - 14),
     Repeat("a", MAX_TOOL_OUTPUT_LENGTH - 13),
     "\"" \o Repeat("a", MAX_TOOL_OUTPUT_LENGTH - 16),
     Repeat("a", MAX_TOOL_OUTPUT_LENGTH - 15) \o "\"",
     Repeat("a", MAX_TOOL_OUTPUT_LENGTH + 500)}

LoopReplies ==
    {Obj(<< <<"content",
              List(<<Obj(<< <<"type", Str("text")>>, <<"text", Str(text)>> >>)>>)>> >>)
        : text \in ToolTexts}
    \cup {Obj(<< <<"error", Str("Request tools/call timed out after 30 seconds")>> >>)}

\* During a run every provider answers list_tools alike: one tool, or a failure.
LoopListings ==
    {[n \in {mcp_clients[i].name : i \in DOMAIN mcp_clients} |-> r] :
        r \in {[ok |-> TRUE, tools |-> << Obj(<< <<"name", Str("read_file")>> >>) >>],
               [ok |-> FALSE, tools |-> <<>>]}}

\* What the client's stderr queue holds after a tool call.
StderrInputs == {<<>>, <<"warn">>}

\* LLMResponse = Union[str, ToolCall]: calling a typing.Union raises TypeError.
LLMResponse(text) == Raises("TypeError")

FallbackText ==
    "Ya dostig maksimalnogo kolichestva iteratsiy dlya vyzova instrumentov"

TruncationNotice ==
    "... [rezultat sokrashchen do " \o ToString(MAX_TOOL_OUTPUT_LENGTH)
    \o " simvolov]"

\* A cut that also applies to an output of exactly the limit.
Truncate_AtLimit(tool_output_str) ==
    IF Len(tool_output_str) >= MAX_TOOL_OUTPUT_LENGTH
    THEN SubSeq(tool_output_str, 1, MAX_TOOL_OUTPUT_LENGTH - 1) \o TruncationNotice
    ELSE tool_output_str

\* "if len(tool_output_str) > MAX_TOOL_OUTPUT_LENGTH: ..."
Truncate(tool_output_str) ==
    IF Len(tool_output_str) > MAX_TOOL_OUTPUT_LENGTH
    THEN SubSeq(tool_output_str, 1, MAX_TOOL_OUTPUT_LENGTH) \o TruncationNotice
    ELSE tool_output_str

\* The fixed text in front of a tool output in the next prompt.
OutputPromptHead(call) ==
    "Osnovyvayas na sleduyushchem vyvode instrumenta, pozhaluysta, "
    \o "prodolzhite ili dayte okonchatelnyy otvet:\n"
    \o "Vyzov instrumenta '" \o call.tool_name \o "' s argumentami "
    \o py_repr(call.arguments) \o " vernul: "

\* A next prompt that keeps the prompt before it in front of the new output.
OutputPrompt_Accumulating(call, tool_output_str) ==
    current_prompt \o "\n" \o OutputPromptHead(call) \o tool_output_str

\* current_prompt after a tool call that returned.
OutputPrompt(call, tool_output_str) == OutputPromptHead(call) \o tool_output_str

ErrorPromptHead == "Predydushchiy vyzov instrumenta zavershilsya s oshibkoy: "

\* current_prompt after a tool call that raised e.
ErrorPrompt(call, e, stderr_messages) ==
    ErrorPromptHead
    \o "Oshibka pri vypolnenii instrumenta MCP '" \o call.server_name \o "/"
    \o call.tool_name \o "': " \o e
    \o (IF Len(stderr_messages) > 0
        THEN "\nStderr: "
             \o json_dumps(List([i \in DOMAIN stderr_messages |->
                                   Str(stderr_messages[i])]))
        ELSE "")
    \o "\nPozhaluysta, poprobuyte snova ili dayte okonchatelnyy otvet."

NoLoopRet == [kind |-> "none", val |-> ""]

LoopInit ==
    /\ loopPc = "idle"
    /\ loop_i = 0
    /\ current_prompt = ""
    /\ llm_response = NoResponse
    /\ tool_result = NoValue
    /\ loopRet = NoLoopRet

\* Entry of generate_response: the check of the selected provider and model,
\* the catalog call, and the start of the for loop.
generate_response(selected, prompt) ==
    /\ loopPc \in {"idle", "returned", "raised"}
    /\ loop_i' = 0
    /\ llm_response' = NoResponse
    /\ tool_result' = NoValue
    /\ IF selected
       THEN /\ loopPc' = "ask"
            /\ current_prompt' = prompt
            /\ loopRet' = NoLoopRet
       ELSE /\ loopPc' = "raised"
            /\ current_prompt' = ""
            /\ loopRet' = Raises("ValueError")
    /\ UNCHANGED <<toolVars, nonLoopVars>>

\* A loop that takes no response for the final answer.
IsFinalAnswer_Never(r) == FALSE

\* "if isinstance(response, ToolCall): ... else: return response"
IsFinalAnswer(r) == r.kind # "call"

\* provider.generate_response returns r: a str is the final answer, a
\* ToolCall goes on to execute_mcp_tool.
ProviderAnswers(r) ==
    /\ loopPc = "ask"
    /\ llm_response' = r
    /\ IF IsFinalAnswer(r)
       THEN /\ loopPc' = "returned"
            /\ loopRet' = Returns(r.text)
       ELSE /\ loopPc' = "tool"
            /\ loopRet' = loopRet
    /\ UNCHANGED <<loop_i, current_prompt, tool_result, toolVars, nonLoopVars>>

\* tool_result["stderr_output"] = stderr_messages, when there are any.
FoldStderr(result, stderr_messages) ==
    IF Len(stderr_messages) > 0
    THEN SetKey(result, "stderr_output",
                List([i \in DOMAIN stderr_messages |-> Str(stderr_messages[i])]))
    ELSE result

\* A for loop that ends after its first iteration.
MoreIterations_None(i) == FALSE

\* "for i in range(MAX_TOOL_CALL_ITERATIONS)": is there an iteration after
\* iteration i.
MoreIterations(i) == i + 1 < MAX_TOOL_CALL_ITERATIONS

\* The rest of one iteration: execute_mcp_tool, the stderr messages, the
\* serialization and its cut, the next prompt; then the next iteration, or the
\* end of the for loop and the fallback return.
ExecuteToolCall ==
    /\ loopPc = "tool"
    /\ \E listing \in (IF IsMetaCall(llm_response.server_name,
                                     llm_response.tool_name)
                       THEN LoopListings ELSE {NoListing}) :
       \E reply \in (IF ReachesClient(llm_response.server_name,
                                       llm_response.tool_name,
                                       llm_response.arguments)
                     THEN LoopReplies ELSE {NoReply}) :
       \E stderr_messages \in (IF Registered(llm_response.server_name)
                               THEN StderrInputs ELSE {<<>>}) :
         LET out == execute_mcp_tool(llm_response.server_name,
                                     llm_response.tool_name,
                                     llm_response.arguments, listing, reply)
         IN  IF out.kind = "return"
             THEN /\ tool_result' = FoldStderr(out.val, stderr_messages)
                  /\ current_prompt' =
                       OutputPrompt(llm_response,
                                    Truncate(json_dumps(
                                        FoldStderr(out.val, stderr_messages))))
             ELSE /\ tool_result' = tool_result
                  /\ current_prompt' =
                       ErrorPrompt(llm_response, out.message, stderr_messages)
    /\ IF MoreIterations(loop_i)
       THEN /\ loop_i' = loop_i + 1
            /\ loopPc' = "ask"
            /\ loopRet' = loopRet
       ELSE /\ loop_i' = loop_i
            /\ loopPc' = IF LLMResponse(FallbackText).kind = "raise"
                         THEN "raised" ELSE "returned"
            /\ loopRet' = LLMResponse(FallbackText)
    /\ UNCHANGED <<llm_response, toolVars, nonLoopVars>>

\* ------------------------------------------- StdioMCPClient, stderr queue
MaxLines == 4        \* stderr lines captured
MaxDrains == 3       \* get_stderr_messages calls

StderrInit ==
    /\ stderr_queue = <<>>
    /\ stderr_captured = 0
    /\ stderr_drains = <<>>
    /\ stderr_task = "running"

\* add_stderr_message: put() on the unbounded queue does not suspend. A line
\* is named by the order of its capture.
add_stderr_message ==
    /\ stderr_captured < MaxLines
    /\ stderr_captured' = stderr_captured + 1
    /\ stderr_queue' = Append(stderr_queue, stderr_captured + 1)
    /\ UNCHANGED <<stderr_drains, stderr_task, nonStderrVars>>

\* A get_stderr_messages that reads the queue and leaves the lines in it.
QueueAfterDrain_Keep == stderr_queue

\* "while not self._stderr_queue.empty(): messages.append(await ...get())":
\* the queue when the loop ends.
QueueAfterDrain == <<>>

\* get_stderr_messages: get() on a queue that is not empty does not suspend,
\* so the loop runs to the end in one turn of the event loop.
get_stderr_messages ==
    /\ Len(stderr_drains) < MaxDrains
    /\ stderr_drains' = Append(stderr_drains, stderr_queue)
    /\ stderr_queue' = QueueAfterDrain
    /\ UNCHANGED <<stderr_captured, stderr_task, nonStderrVars>>

\* read_stderr of main.py, one turn of its loop on a line of the provider's
\* stderr: the line is handed to add_stderr_message.
read_stderr ==
    /\ stderr_task = "running"
    /\ add_stderr_message

\* read_stderr, "if not line: break": readline() returns b"" once the process
\* has exited and its stderr is at end of stream; the task ends.
read_stderr_eof ==
    /\ stderr_task = "running"
    /\ proc = "exited"
    /\ stderr_task' = "done"
    /\ UNCHANGED <<stderr_queue, stderr_captured, stderr_drains, nonStderrVars>>

\* ------------------------------------------ SSE_MCP_Client.execute_tool
SseReturns(v) == [kind |-> "return", val |-> v, exc |-> ""]
SseRaises(e) == [kind |-> "raise", val |-> NoValue, exc |-> e]

\* _send_request_and_wait_for_sse_response("POST", "tools/<name>/execute"):
\* response.json() of a 200, the error dict the two except clauses build, or
\* the exception of a body that is not JSON.
SsePost(outcome) ==
    CASE outcome = "ok" ->
           SseReturns(Obj(<< <<"result", Obj(<< <<"content", Str("ok")>> >>)>> >>))
      [] outcome = "json_array" -> SseReturns(List(<<>>))
      [] outcome = "not_json" -> SseRaises("JSONDecodeError")
      [] outcome = "error_status" ->
           SseReturns(Obj(<< <<"error", Str("Server error '500 Internal Server Error'")>>,
                             <<"details", Str("")>> >>))
      [] outcome = "unreachable" ->
           SseReturns(Obj(<< <<"error", Str("All connection attempts failed")>> >>))

\* response.get("result", {})
SseResultOf(response) == GetOr(response, "result", Obj(<<>>))

\* SSE_MCP_Client.execute_tool
SseExecuteTool(outcome) ==
    LET response == SsePost(outcome)
    IN  IF response.kind = "raise" THEN response
        ELSE IF response.val.t # "obj" THEN SseRaises("AttributeError")
        ELSE SseReturns(SseResultOf(response.val))

NoSseRet == [outcome |-> "none", out |-> SseReturns(NoValue)]

SseInit == sse_ret = NoSseRet

\* A call of execute_tool on an event-stream client, and what the server does
\* with its POST.
SseExecute(outcome) ==
    /\ sse_ret' = [outcome |-> outcome, out |-> SseExecuteTool(outcome)]
    /\ UNCHANGED nonSseVars

\* --------------------------------------------------------- specifications
Init == StdioInit /\ PollInit /\ ToolInit /\ LoopInit /\ StderrInit /\ SseInit

\* The steps of one caller task inside a call.
Steps(c) ==
    \/ _send_request(c)
    \/ _send_notification(c)
    \/ DrainOk(c)
    \/ DrainFail(c)
    \/ AwaitFuture(c)
    \/ TimeoutFire(c)
    \/ TimeoutResume(c)

\* Two callers issuing user-level calls, the reader and the provider.
StdioNext ==
    \/ \E c \in Callers : \E op \in OpsOf(c) : Call(c, op)
    \/ \E c \in Callers : Steps(c)
    \/ _read_responses
    \/ ProcExit

SpecStdio == Init /\ [][StdioNext]_vars

\* wait_until_ready in the first task, user-level calls in the second.
ReadyNext ==
    \/ WaitUntilReady(1)
    \/ DeadlineElapses(1)
    \/ WaitLoop(1)
    \/ WaitSleep(1)
    \/ \E op \in OpsOf(2) : Call(2, op)
    \/ \E c \in Callers : Steps(c)
    \/ _read_responses
    \/ ProcExit

SpecReady == Init /\ [][ReadyNext]_vars

\* close() beside one caller, the reader and the provider.
CloseNext ==
    \/ \E op \in OpsOf(1) : Call(1, op)
    \/ Steps(1)
    \/ _read_responses
    \/ ProcExit
    \/ ProcReads
    \/ close

SpecClose == Init /\ [][CloseNext]_vars

\* The event loop keeps running the task that is inside close(), and the
\* timers of its wait_for calls expire: a step of close() that stays possible
\* is taken. Nothing is assumed of the provider process.
CloseProgress ==
    \/ \E full \in BOOLEAN : CloseStdin(full)
    \/ \E exc \in BOOLEAN : CloseWaitClosed(exc)
    \/ CloseGracefulWait
    \/ CloseKillWait
    \/ CloseExcept

SpecCloseFair == SpecClose /\ WF_vars(CloseProgress)

\* wait_until_ready of an HTTP or event-stream client against its server.
PollNext ==
    \/ \E kind \in {"http", "sse"} : PollStart(kind)
    \/ PollDeadlineElapses
    \/ PollLoop
    \/ \E outcome \in ServerOutcomes : PollAnswer(outcome)
    \/ PollSleep

SpecPoll == Init /\ [][PollNext]_vars

\* An event-stream client: wait_until_ready, then calls of execute_tool.
SseNext ==
    \/ PollStart("sse")
    \/ PollDeadlineElapses
    \/ PollLoop
    \/ \E outcome \in ServerOutcomes : PollAnswer(outcome)
    \/ PollSleep
    \/ \E outcome \in ServerOutcomes : SseExecute(outcome)

SpecSse == Init /\ [][SseNext]_vars

\* The registry and calls of execute_mcp_tool on it.
ToolNext ==
    \/ \E server_name \in Servers : \E config \in ServerConfigs :
         register_mcp_server(server_name, config)
    \/ \E server_name \in Servers \cup {UnknownServer} :
       \E tool_name \in ToolNames : \E arguments \in ArgumentValues :
         ExecuteMcpTool(server_name, tool_name, arguments)

SpecTools == Init /\ [][ToolNext]_vars

\* The reader ends while no call is under way, so that every request that is
\* under way with the reader gone was sent after it had gone.
QuietReadEnd ==
    /\ \A c \in Callers : task[c].pc \in {"idle", "done"}
    /\ ReadEnd

DeadReaderNext ==
    \/ \E c \in Callers : \E op \in OpsOf(c) : Call(c, op)
    \/ \E c \in Callers : Steps(c)
    \/ \E line \in Lines : ReadLine(line)
    \/ QuietReadEnd
    \/ ProcExit

SpecDeadReader == Init /\ [][DeadReaderNext]_vars

\* The event loop runs every task that can go on, and the timer of a
\* wait_for expires.
SpecDeadReaderFair ==
    SpecDeadReader /\ \A c \in Callers : WF_vars(Steps(c))

\* The reader of the provider's stderr and the callers that drain the queue.
StderrNext == add_stderr_message \/ get_stderr_messages

SpecStderr == Init /\ [][StderrNext]_vars

\* The two background tasks of a pipe client beside one caller, the provider
\* and close().
TasksNext ==
    \/ \E op \in OpsOf(1) : Call(1, op)
    \/ Steps(1)
    \/ _read_responses
    \/ read_stderr
    \/ read_stderr_eof
    \/ ProcExit
    \/ ProcReads
    \/ close

SpecTasks == Init /\ [][TasksNext]_vars

\* The registry alone: registrations and the closing of the clients.
RegistryNext ==
    \/ \E server_name \in Servers : \E config \in ServerConfigs :
         register_mcp_server(server_name, config)
    \/ close_mcp_clients

SpecRegistry == Init /\ [][RegistryNext]_vars

\* Registrations and the catalog of the tools of the registered providers.
CatalogNext ==
    \/ \E server_name \in Servers : \E config \in ServerConfigs :
         register_mcp_server(server_name, config)
    \/ \E listing \in Listings : GetAvailableMcpTools(listing)

SpecCatalog == Init /\ [][CatalogNext]_vars

\* generate_response over a registry of pipe providers.
LoopNext ==
    \/ \E server_name \in Servers : register_mcp_server(server_name, StdioConfig)
    \/ \E selected \in BOOLEAN : \E prompt \in UserPrompts :
         generate_response(selected, prompt)
    \/ \E r \in ModelResponses : ProviderAnswers(r)
    \/ ExecuteToolCall

SpecLoop == Init /\ [][LoopNext]_vars

\* ------------------------------------------------------------------ claims

\* C1: whatever the order in which the provider's responses arrive, a response
\* completes the future of the request whose id it carries, and a caller that
\* obtained a result obtained the payload the provider computed for its own id.
C1_CorrelationById ==
    /\ \A i \in Ids : future[i].state = "result" => future[i].val = PayloadFor(i)
    /\ \A c \in Callers :
         task[c].ret = "result" => task[c].val = PayloadFor(task[c].id)

\* Two requests are outstanding together and the later one has been answered
\* first: its caller holds its own payload while the earlier one still waits.
C1_Witness ==
    \E c, d \in Callers :
        /\ task[c].pc = "req_wait" /\ task[c].id \in pending
        /\ task[d].ret = "result" /\ task[d].id > task[c].id
        /\ task[d].val = PayloadFor(task[d].id)

\* A response read after the timeout of the request it answers.
LateResponse(line) ==
    /\ line.id # NoId
    /\ future[line.id].state = "cancelled"
    /\ ReadLine(line)

\* C2: a request whose timeout expired ended with TimeoutError and its id is
\* not in the pending map; reading a response with that id afterwards keeps
\* the reader running and changes no future and no caller.
C2_TimeoutRemovesPending ==
    /\ [](\A c \in Callers :
            task[c].exc = "TimeoutError" =>
                /\ task[c].id \notin pending
                /\ future[task[c].id].state = "cancelled")
    /\ [][\A line \in Lines :
            LateResponse(line) =>
                /\ reader' = "running"
                /\ future' = future
                /\ task' = task
                /\ pending' = pending \ {line.id}]_vars

\* The reader has read and dropped a response to a request whose timeout had
\* already fired; the reader is still running.
C2_Witness ==
    \E c \in Callers :
        /\ task[c].pc = "req_cancelled"
        /\ task[c].id \notin pending
        /\ future[task[c].id].state = "cancelled"
        /\ reader = "running"

\* C3: every tools/list, tools/call, resources/list or resources/read request
\* on the pipe is preceded by an initialize request that received a result
\* and, after it, by the initialized notification.
C3_HandshakeBeforeCalls ==
    \A k \in 1..Len(stdin) :
        stdin[k].method \in UserMethods =>
            \E i \in 1..Len(stdin), j \in 1..Len(stdin) :
                /\ i < j /\ j < k
                /\ stdin[i].method = "initialize"
                /\ future[stdin[i].id].state = "result"
                /\ stdin[j].method = "initialized"

\* A user-level request was written after one handshake failed and a later
\* one succeeded.
C3_Witness ==
    /\ \E k \in 1..Len(stdin) : stdin[k].method \in UserMethods
    /\ \E i \in 1..Len(stdin) :
          /\ stdin[i].method = "initialize"
          /\ future[stdin[i].id].state \in {"exception", "cancelled"}

\* C4: a wait_until_ready that has returned, returned true exactly when the
\* handshake completed and its trial tools/list request received a result.
C4_ReadyIffTrialSucceeded ==
    \A c \in Callers :
        (task[c].op = "wait_until_ready" /\ task[c].pc = "done") =>
            (task[c].ret = "true" <=> (initialized /\ task[c].trial = "ok"))

\* C5: an HTTP or event-stream wait_until_ready returns true only after a
\* trial list_tools call that succeeded, and false when every trial failed.
C5_TrueOnlyAfterSuccessfulTrial ==
    pollPc = "done" =>
        /\ pollRet = "true" =>
              /\ pollTrials # <<>>
              /\ pollTrials[Len(pollTrials)] \in {"ok", "json_array"}
        /\ (\A k \in 1..Len(pollTrials) :
                pollTrials[k] \in {"error_status", "unreachable"})
              => pollRet = "false"

\* C6: wait_until_ready gives its caller a boolean, whatever the handshake or
\* the trial call did, on the pipe, HTTP and event-stream clients.
C6_ReadyNeverRaises ==
    /\ pollPc = "done" => pollRet \in {"true", "false"}
    /\ \A c \in Callers :
          (task[c].op = "wait_until_ready" /\ task[c].pc = "done")
              => task[c].ret \in {"true", "false"}

\* Has generate_response ended, and how.
LoopEnded == loopPc \in {"returned", "raised"}

\* C7: generate_response makes at most 3 provider calls, and a run in which
\* the provider answered at all ends by returning the model's text or the
\* fixed fallback message, never by raising.
C7_LoopAlwaysAnswers ==
    /\ loop_i < MAX_TOOL_CALL_ITERATIONS
    /\ (LoopEnded /\ llm_response.kind # "none") =>
         /\ loopPc = "returned"
         /\ loopRet.kind = "return"
         /\ loopRet.val \in ModelTexts \cup {FallbackText}

\* Does the string s contain the string sub.
Contains(s, sub) ==
    \E k \in 1..(Len(s) - Len(sub) + 1) : SubSeq(s, k, k + Len(sub) - 1) = sub

NamedLikeMeta(tool) == tool.server_name = "meta" /\ tool.tool_name = "list_mcp_tools"

\* C8: the listing the meta tool returns has no entry for the meta tool, has
\* an entry for every other tool of the catalog, and is the fixed "no tools"
\* text when the catalog holds the meta tool alone.
C8_MetaListingExcludesMeta ==
    IsMetaCall(tool_ret.server_name, tool_ret.tool_name) =>
        /\ tool_ret.out.kind = "return"
        /\ ~Contains(Get(tool_ret.out.val, "result").s,
                     "Server: meta, Tool: list_mcp_tools")
        /\ \A i \in DOMAIN tool_ret.all_tools :
             ~NamedLikeMeta(tool_ret.all_tools[i]) =>
                Contains(Get(tool_ret.out.val, "result").s,
                         FormatTool(tool_ret.all_tools[i]))
        /\ Len(tool_ret.all_tools) = 1 =>
             Get(tool_ret.out.val, "result").s = NoToolsText

\* The meta tool was executed over two providers, one of which is registered
\* as "meta" and offers a tool called list_mcp_tools, the other a search tool.
C8_Witness ==
    /\ IsMetaCall(tool_ret.server_name, tool_ret.tool_name)
    /\ Len(tool_ret.all_tools) = 3
    /\ \E i \in 2..3 : NamedLikeMeta(tool_ret.all_tools[i])
    /\ \E i \in 2..3 : tool_ret.all_tools[i].tool_name = "brave_web_search"

\* Is current_prompt the prompt built from the output of the call llm_response.
BuiltFromOutput ==
    /\ llm_response.kind = "call"
    /\ Len(current_prompt) >= Len(OutputPromptHead(llm_response))
    /\ SubSeq(current_prompt, 1, Len(OutputPromptHead(llm_response)))
         = OutputPromptHead(llm_response)

\* What follows the fixed text in that prompt.
PlacedOutput ==
    SubSeq(current_prompt, Len(OutputPromptHead(llm_response)) + 1,
           Len(current_prompt))

\* C9: the next prompt carries the serialized tool output unmodified when it
\* has at most 2000 characters, and its first 2000 characters followed by the
\* truncation notice when it is longer.
C9_TruncationAtLimit ==
    BuiltFromOutput =>
        IF Len(json_dumps(tool_result)) > 2000
        THEN PlacedOutput = SubSeq(json_dumps(tool_result), 1, 2000)
                            \o TruncationNotice
        ELSE PlacedOutput = json_dumps(tool_result)

\* A tool output of 2001 characters has been placed in the next prompt.
C9_Witness ==
    /\ BuiltFromOutput
    /\ Len(json_dumps(tool_result)) = 2001

\* The last three entries of the steps close() went through.
CloseLogTail ==
    IF Len(closeLog) < 3 THEN closeLog
    ELSE SubSeq(closeLog, Len(closeLog) - 2, Len(closeLog))

\* C10: every close() that has started returns, whether or not the provider
\* process ever exits; a close() that returned while the process was still
\* running went through the graceful wait, the kill and the wait after it.
C10_CloseAlwaysReturns ==
    /\ (closePc \notin {"idle", "returned"}) ~> (closePc = "returned")
    /\ []((closePc = "returned" /\ proc = "running") =>
            CloseLogTail = <<"graceful_timeout", "kill", "kill_timeout">>)

\* How many times close() called stdin.close(), over all its calls.
StdinCloseCalls ==
    Cardinality({i \in DOMAIN closeLog : closeLog[i] = "stdin_close"})

\* C11: a second close() returns, stdin.close() is called at most once over
\* the calls of close(), and every close() that returned leaves the reader
\* task ended and stdin closing.
C11_CloseIdempotent ==
    /\ (closes = 2 /\ closePc # "returned") ~> (closes = 2 /\ closePc = "returned")
    /\ [](StdinCloseCalls <= 1)
    /\ []((closes >= 1 /\ closePc = "returned") => (reader = "done" /\ stdinClosed))

\* The second close() has returned, on a process that is still running.
C11_Witness ==
    /\ closes = 2
    /\ closePc = "returned"
    /\ proc = "running"
    /\ StdinCloseCalls = 1

\* The keys of a dict.
Keys(d) == {d.items[i][1] : i \in DOMAIN d.items}

\* Was the last execute_mcp_tool a brave_web_search call whose arguments are a
\* mapping with these keys present and these absent.
SearchCallWith(present, absent) ==
    /\ tool_ret.tool_name = "brave_web_search"
    /\ tool_ret.arguments.t \in {"obj", "proto"}
    /\ present \subseteq Keys(tool_ret.arguments)
    /\ absent \cap Keys(tool_ret.arguments) = {}

\* C12: a brave_web_search call with q and without query, on a registered
\* provider, reaches the client with the value of q under query, no q, and
\* every other key as it was.
C12_AliasMovedToQuery ==
    (SearchCallWith({"q"}, {"query"}) /\ tool_ret.out.kind = "return") =>
        /\ tool_ret.out.call.made
        /\ tool_ret.out.call.tool_name = "brave_web_search"
        /\ Keys(tool_ret.out.call.arguments)
             = (Keys(tool_ret.arguments) \ {"q"}) \cup {"query"}
        /\ Get(tool_ret.out.call.arguments, "query") = Get(tool_ret.arguments, "q")
        /\ \A k \in Keys(tool_ret.arguments) \ {"q"} :
             Get(tool_ret.out.call.arguments, k) = Get(tool_ret.arguments, k)

\* The provider was called for arguments {q, count}.
C12_Witness ==
    /\ SearchCallWith({"q", "count"}, {"query"})
    /\ tool_ret.out.call.made

\* The error text of a dict that has an error field, "" otherwise.
ErrorOf(result) ==
    IF result.t = "obj" /\ Has(result, "error") THEN Get(result, "error").s ELSE ""

\* C13: a brave_web_search call with neither q nor query ends in an error
\* (the missing-parameter error on a registered provider) and no client's
\* execute_tool is called.
C13_MissingQueryStopsCall ==
    SearchCallWith({}, {"q", "query"}) =>
        /\ ~tool_ret.out.call.made
        /\ \/ tool_ret.out.kind = "raise"
           \/ ErrorOf(tool_ret.out.val) = "Missing required 'query' parameter"

\* The missing-parameter error was produced for a registered provider.
C13_Witness ==
    /\ SearchCallWith({}, {"q", "query"})
    /\ Registered(tool_ret.server_name)
    /\ ErrorOf(tool_ret.out.val) = "Missing required 'query' parameter"

\* Has the loop executed the tool call llm_response and built the prompt that
\* follows it.
ToolCallExecuted ==
    /\ loopPc \in {"ask", "raised"}
    /\ llm_response.kind = "call"

\* Does current_prompt report an error of the tool call.
ReportsError ==
    /\ Len(current_prompt) >= Len(ErrorPromptHead)
    /\ SubSeq(current_prompt, 1, Len(ErrorPromptHead)) = ErrorPromptHead

\* C14: after a brave_web_search call with neither q nor query the loop is on
\* its error path, as after a call to an unknown provider: the prompt reports
\* an error and is not built from a tool output.
C14_MissingArgumentRaised ==
    (/\ ToolCallExecuted
     /\ llm_response.tool_name = "brave_web_search"
     /\ Keys(llm_response.arguments) \cap {"q", "query"} = {})
        => (ReportsError /\ ~BuiltFromOutput)

\* Is a name in the registry of clients.
InRegistry(name) ==
    \E i \in DOMAIN mcp_clients : mcp_clients[i].name = name

\* C15: a call of execute_mcp_tool that is not the meta tool and names a server
\* absent from the registry raises ValueError naming the server, with the
\* arguments not yet looked at and no client called.
C15_UnknownProviderRaises ==
    [][(/\ tool_ret' # tool_ret
        /\ ~IsMetaCall(tool_ret'.server_name, tool_ret'.tool_name)
        /\ ~InRegistry(tool_ret'.server_name))
           => (/\ tool_ret'.out.kind = "raise"
               /\ tool_ret'.out.exc = "ValueError"
               /\ ~tool_ret'.out.call.made)]_vars

\* An unregistered server was called with a search whose arguments the fixup
\* would have rewritten, and the call raised.
C15_Witness ==
    /\ SearchCallWith({"q"}, {"query"})
    /\ ~InRegistry(tool_ret.server_name)
    /\ tool_ret.out.kind = "raise"
    /\ tool_ret.out.exc = "ValueError"

\* The client's execute_tool failed: it caught the exception of the request
\* and gave it back as {"error": str(e)}.
ClientFailed ==
    /\ tool_ret.out.call.made
    /\ tool_ret.reply.t = "obj"
    /\ Keys(tool_ret.reply) = {"error"}

\* C16: when the client's execute_tool fails, execute_mcp_tool returns, and
\* the result has an error field that carries the failure.
C16_ClientFailureInErrorField ==
    ClientFailed
        => (/\ tool_ret.out.kind = "return"
            /\ Has(tool_ret.out.val, "error")
            /\ Get(tool_ret.out.val, "error") = Get(tool_ret.reply, "error"))

\* A step of the timeout of caller c's request: wait_for cancels the future,
\* or the caller resumes in its except clause.
TimeoutStep(c) ==
    \/ /\ task[c].pc \in {"init_wait", "req_wait"}
       /\ task'[c].pc \in {"init_cancelled", "req_cancelled"}
    \/ /\ task[c].pc \in {"init_cancelled", "req_cancelled"}
       /\ task'[c].pc # task[c].pc

\* C17: the steps of one request's timeout leave the process, the reader, the
\* ready flag, the id counter, the lock and what was written alone, and change
\* neither the future nor the pending entry of any other id nor any other
\* caller; a caller that obtains a result beside a timed-out sibling obtains
\* the payload of its own id.
C17_TimeoutTouchesOneRequest ==
    /\ [][\A c \in Callers :
            TimeoutStep(c) =>
                /\ proc' = proc
                /\ reader' = reader
                /\ initialized' = initialized
                /\ next_id' = next_id
                /\ lock' = lock
                /\ stdin' = stdin
                /\ stdinClosed' = stdinClosed
                /\ \A i \in Ids \ {task[c].id} :
                     /\ future'[i] = future[i]
                     /\ (i \in pending') = (i \in pending)
                /\ \A d \in Callers \ {c} : task'[d] = task[d]]_vars
    /\ [](\A c, d \in Callers :
            (task[c].exc = "TimeoutError" /\ task[d].ret = "result")
                => task[d].val = PayloadFor(task[d].id))

\* A request has timed out and its caller has got TimeoutError while a request
\* sent before it is still waiting, registered in the pending map.
C17_Witness ==
    \E c, d \in Callers :
        /\ task[c].exc = "TimeoutError"
        /\ task[c].pc = "done"
        /\ task[d].pc = "req_wait"
        /\ task[d].id < task[c].id
        /\ task[d].id \in pending
        /\ future[task[d].id].state = "pending"

\* The positions of a task between the start of _initialize_connection and
\* the outcome of its initialize request.
InitializePcs == {"init_lock", "init_drain", "init_wait", "init_cancelled"}

\* Caller c's handshake fails at its initialize request: the write fails, the
\* response is an error, or the request times out.
HandshakeFails(c) ==
    /\ task[c].pc \in InitializePcs
    /\ task'[c].pc \notin InitializePcs \cup {"notif_lock"}

\* Caller c enters the body of a user-level call or of a trial of
\* wait_until_ready.
AttemptStarts(c) ==
    /\ task[c].pc \in {"idle", "done", "loop"}
    /\ task'[c].pc \notin {"idle", "done", "loop"}

\* C18: a handshake that fails at its initialize request does not set the
\* ready flag and writes nothing; an initialized notification is only ever
\* written after an initialize request that received a result, and the client
\* is ready only then; an attempt begun while the client is not ready begins
\* with a handshake; and the handshake that completes makes the client ready.
C18_FailedHandshakeNotReady ==
    /\ [][\A c \in Callers :
            HandshakeFails(c) =>
                /\ initialized' = initialized
                /\ stdin' = stdin
                /\ task'[c].pc \in {"sleep", "done"}]_vars
    /\ [](\A k \in 1..Len(stdin) :
            stdin[k].method = "initialized" =>
                \E i \in 1..(k - 1) :
                    /\ stdin[i].method = "initialize"
                    /\ future[stdin[i].id].state = "result")
    /\ [](initialized =>
            \E i, k \in 1..Len(stdin) :
                /\ i < k
                /\ stdin[i].method = "initialize"
                /\ future[stdin[i].id].state = "result"
                /\ stdin[k].method = "initialized")
    /\ [][\A c \in Callers :
            (AttemptStarts(c) /\ ~initialized) => task'[c].pc = "init_lock"]_vars
    /\ [][\A c \in Callers :
            (task[c].pc = "notif_drain" /\ task'[c].pc = "req_lock")
                => initialized']_vars

\* wait_until_ready has made the client ready at a trial that followed a trial
\* whose handshake failed: the failed initialize precedes the answered one.
C18_Witness ==
    /\ initialized
    /\ task[1].op = "wait_until_ready"
    /\ \E i, j, k \in 1..Len(stdin) :
          /\ i < j /\ j < k
          /\ stdin[i].method = "initialize"
          /\ future[stdin[i].id].state \in {"exception", "cancelled", "pending"}
          /\ stdin[i].id \notin {task[c].id : c \in Callers}
          /\ stdin[j].method = "initialize"
          /\ future[stdin[j].id].state = "result"
          /\ stdin[k].method = "initialized"
    /\ Cardinality({k \in 1..Len(stdin) : stdin[k].method = "initialized"}) = 1

\* Does the execution of the tool call llm_response raise.
ExecutionRaises ==
    /\ ~IsMetaCall(llm_response.server_name, llm_response.tool_name)
    /\ execute_mcp_tool(llm_response.server_name, llm_response.tool_name,
                        llm_response.arguments, NoListing, NoReply).kind = "raise"

\* The message of the exception the execution of llm_response raises.
RaisedMessage ==
    execute_mcp_tool(llm_response.server_name, llm_response.tool_name,
                     llm_response.arguments, NoListing, NoReply).message

\* C19: the iteration of a tool call whose execution raises ends in the next
\* iteration, one further, with the provider about to be called on a prompt
\* that reports the error and carries its message, and with nothing returned;
\* only after the last of the 3 iterations does it end the loop. The loop
\* variable never reaches 3.
C19_RaisingCallConsumesOneIteration ==
    /\ [](loop_i \in 0..(MAX_TOOL_CALL_ITERATIONS - 1))
    /\ [][(loopPc = "tool" /\ loopPc' # "tool" /\ ExecutionRaises) =>
            IF loop_i + 1 < MAX_TOOL_CALL_ITERATIONS
            THEN /\ loopPc' = "ask"
                 /\ loop_i' = loop_i + 1
                 /\ loopRet' = loopRet
                 /\ ReportsError'
                 /\ Contains(current_prompt', RaisedMessage)
            ELSE /\ loopPc' \in {"returned", "raised"}
                 /\ loop_i' = loop_i]_vars

\* Two tool calls in a row have raised and the provider is about to be called
\* a third time, on the error prompt of the second.
C19_Witness ==
    /\ loopPc = "ask"
    /\ loop_i = 2
    /\ llm_response.kind = "call"
    /\ ~InRegistry(llm_response.server_name)
    /\ ~IsMetaCall(llm_response.server_name, llm_response.tool_name)
    /\ ReportsError
    /\ Contains(current_prompt, RaisedMessage)

\* The provider's call returns to the loop.
ProviderReturns == loopPc = "ask" /\ loopPc' # "ask"

\* C20: when the provider's response is text, generate_response returns that
\* text at that step, in the same iteration and with no tool executed; a
\* generate_response that has returned either returned the text of the last
\* response or had used its last iteration on a tool call; and after the
\* return the loop does nothing more until generate_response is called anew.
C20_TextReturnsAtOnce ==
    /\ [][(ProviderReturns /\ llm_response'.kind = "text") =>
            /\ loopPc' = "returned"
            /\ loopRet' = Returns(llm_response'.text)
            /\ loop_i' = loop_i
            /\ tool_result' = tool_result
            /\ current_prompt' = current_prompt]_vars
    /\ [](loopPc = "returned" =>
            \/ /\ llm_response.kind = "text"
               /\ loopRet = Returns(llm_response.text)
            \/ /\ llm_response.kind = "call"
               /\ loop_i = MAX_TOOL_CALL_ITERATIONS - 1)
    /\ [][(loopPc = "returned" /\ loopVars' # loopVars) =>
            /\ loop_i' = 0
            /\ llm_response' = NoResponse
            /\ loopPc' \in {"ask", "raised"}]_vars

\* The provider answered a tool call in the first iteration and text in the
\* second, and generate_response returned the text.
C20_Witness ==
    /\ loopPc = "returned"
    /\ loop_i = 1
    /\ llm_response.kind = "text"
    /\ loopRet = Returns(llm_response.text)
    /\ current_prompt \notin UserPrompts

\* The positions of the textual elements of a content list.
TextualAt(content) ==
    {i \in DOMAIN content.items :
        content.items[i].t = "obj" /\ Has(content.items[i], "text")}

\* The text of the first textual element of a content list that has one.
FirstText(content) ==
    LET first == CHOOSE i \in TextualAt(content) :
                     \A j \in TextualAt(content) : i <= j
    IN  Get(content.items[first], "text")

\* C21: the result of a call that reached the client is, by precedence: the
\* text of the first textual element of the reply's content list when the
\* reply has one; else the reply itself when it has a result field and no
\* content field; else, for a reply without content, the reply wrapped as
\* result. Every reply is normalized to a value with a result field.
C21_NormalizationPrecedence ==
    (tool_ret.out.call.made /\ tool_ret.out.kind = "return") =>
        LET reply == tool_ret.reply
            val == tool_ret.out.val
            hasContent == reply.t = "obj" /\ Has(reply, "content")
        IN  /\ val.t = "obj" /\ Has(val, "result")
            /\ (hasContent /\ Get(reply, "content").t = "list"
                /\ TextualAt(Get(reply, "content")) # {})
                  => val = Obj(<< <<"result", FirstText(Get(reply, "content"))>> >>)
            /\ (~hasContent /\ reply.t = "obj" /\ Has(reply, "result"))
                  => val = reply
            /\ (~hasContent /\ ~(reply.t = "obj" /\ Has(reply, "result")))
                  => val = Obj(<< <<"result", reply>> >>)

\* self._mcp_clients.get(name), for a registered name.
ClientFor(name) ==
    mcp_clients[CHOOSE i \in DOMAIN mcp_clients : mcp_clients[i].name = name]

\* The client class the type of a configuration stands for.
TransportOfType(type) ==
    CASE type = "stdio" -> "StdioMCPClient"
      [] type = "sse" -> "SSE_MCP_Client"
      [] OTHER -> "HTTPMCPClient"

\* Does a configuration come with what its type requires: the process for
\* stdio, the url for the others.
Supplied(config) ==
    IF config.type = "stdio" THEN config.process ELSE config.url

\* C22 as stated: whatever else the configuration holds, a registration stores
\* under the given name the client class its type stands for.
C22_TypeAloneSelects ==
    [][\A server_name \in Servers : \A config \in ServerConfigs :
          register_mcp_server(server_name, config) =>
              /\ InRegistry(server_name)'
              /\ ClientFor(server_name)'.class = TransportOfType(config.type)]_vars

\* C22, amended: a registration whose configuration comes with what its type
\* requires stores under the given name the client class its type stands for;
\* a configuration that does not is rejected with ValueError, except type
\* stdio with a url and no process, which yields the HTTP client.
C22_TransportByType ==
    /\ [][\A server_name \in Servers : \A config \in ServerConfigs :
            (register_mcp_server(server_name, config) /\ Supplied(config)) =>
                /\ InRegistry(server_name)'
                /\ ClientFor(server_name)'.class = TransportOfType(config.type)]_vars
    /\ [](\A config \in ServerConfigs :
            ~Supplied(config) =>
                create_mcp_client(config) =
                    IF config.type = "stdio" /\ config.url
                    THEN Returns("HTTPMCPClient") ELSE Raises("ValueError"))

\* Two registrations have stored a pipe client under one name and an
\* event-stream client under the other.
C22_Witness ==
    /\ InRegistry("brave") /\ ClientFor("brave").class = "StdioMCPClient"
    /\ InRegistry("meta") /\ ClientFor("meta").class = "SSE_MCP_Client"

\* The registrations that replace the client stored under a name: the name
\* is registered and the configuration is accepted.
Replaces(server_name, config) ==
    /\ InRegistry(server_name)
    /\ create_mcp_client(config).kind = "return"
    /\ register_mcp_server(server_name, config)

\* C23: a registration under a registered name leaves the registry with one
\* entry for that name, at the same position, holding the new client, so that
\* a lookup of the name finds the new client; it closes no client; and the
\* entries of the other names are as they were. No name ever has two entries.
C23_ReRegistrationReplaces ==
    /\ [][\A server_name \in Servers : \A config \in ServerConfigs :
            Replaces(server_name, config) =>
                /\ Len(mcp_clients') = Len(mcp_clients)
                /\ ClientFor(server_name)' =
                     [name |-> server_name,
                      class |-> create_mcp_client(config).val]
                /\ closed_clients' = closed_clients
                /\ \A i \in DOMAIN mcp_clients :
                     IF mcp_clients[i].name = server_name
                     THEN mcp_clients'[i] = ClientFor(server_name)'
                     ELSE mcp_clients'[i] = mcp_clients[i]]_vars
    /\ [](\A i, j \in DOMAIN mcp_clients :
            mcp_clients[i].name = mcp_clients[j].name => i = j)

\* Beside a second registered name, the name registered first holds a client
\* other than the one that was closed under it: it was registered again after
\* close_mcp_clients, and the new client is open.
C23_Witness ==
    /\ Len(mcp_clients) = 2
    /\ \E c \in closed_clients :
          /\ c.name = mcp_clients[1].name
          /\ c.class # mcp_clients[1].class
    /\ mcp_clients[1] \notin closed_clients
    /\ mcp_clients[2] \in closed_clients

\* What the provider asked k-th in the last catalog call answered.
Answered(k) == catalog.listing[catalog.asked[k].name]

\* The number of tools the providers asked before the k-th contributed.
RECURSIVE ToolsBefore(_)
ToolsBefore(k) ==
    IF k <= 1 THEN 0
    ELSE ToolsBefore(k - 1)
         + (IF Answered(k - 1).ok THEN Len(Answered(k - 1).tools) ELSE 0)

RECURSIVE Drained(_)
Drained(k) ==
    IF k = 0 THEN <<>> ELSE Drained(k - 1) \o stderr_drains[k]

\* C25: the lines the drains returned, in the order of the drains, followed by
\* the lines still queued, are the captured lines in capture order, each once;
\* a drain returns the whole queue, empty or not, and leaves it empty.
C25_DrainReturnsEachLineOnce ==
    /\ [](Drained(Len(stderr_drains)) \o stderr_queue
            = [n \in 1..stderr_captured |-> n])
    /\ [][Len(stderr_drains') > Len(stderr_drains) =>
            /\ stderr_drains'[Len(stderr_drains')] = stderr_queue
            /\ stderr_queue' = <<>>]_vars

\* Three drains: the first returned two lines, the second none, the third the
\* line captured since.
C25_Witness ==
    /\ Len(stderr_drains) = 3
    /\ stderr_drains[1] = <<1, 2>>
    /\ stderr_drains[2] = <<>>
    /\ stderr_drains[3] = <<3>>
    /\ stderr_queue = <<>>

\* The positions at which a task has written its message and waits in
\* stdin.drain(), inside "async with self._lock".
DrainPcs == {"init_drain", "req_drain", "notif_drain"}

\* C26: a step that writes to the pipe appends one whole message to what was
\* written, is taken with the lock free and leaves it held by the writer, who
\* keeps it until its drain ends, so that at most one task is between its
\* write and the end of its drain; and the requests on the pipe are in the
\* order of their ids.
C26_WritesSerialized ==
    /\ [][stdin' # stdin =>
            /\ lock = NoOne
            /\ lock' \in Callers
            /\ task'[lock'].pc \in DrainPcs
            /\ Len(stdin') = Len(stdin) + 1
            /\ SubSeq(stdin', 1, Len(stdin)) = stdin]_vars
    /\ [](\A c \in Callers : task[c].pc \in DrainPcs => lock = c)
    /\ [](\A i, j \in 1..Len(stdin) :
            (i < j /\ stdin[i].id # NoId /\ stdin[j].id # NoId)
                => stdin[i].id < stdin[j].id)

\* One caller is between its write and the end of its drain while the other,
\* its message ready, waits for the lock; messages of both are on the pipe.
C26_Witness ==
    /\ task[1].pc = "req_drain"
    /\ task[2].pc \in {"init_lock", "req_lock"}
    /\ lock = 1
    /\ \E k \in 1..Len(stdin) : stdin[k].id # NoId /\ stdin[k].id < task[1].id
                                /\ stdin[k].id = task[2].id

\* The ids of the requests written so far.
WrittenIds == {stdin[k].id : k \in {n \in 1..Len(stdin) : stdin[n].id # NoId}}

\* C27: the id counter never decreases; a step that registers a request gives
\* it the value of the counter, which is above every id given before, is not
\* in the pending map and has never had a future, and moves the counter one
\* up; every pending id is below the counter, and no two requests on the pipe
\* and no two callers in a request have the same id.
C27_IdsIncreaseNeverReused ==
    /\ [][/\ next_id' >= next_id
          /\ next_id' # next_id =>
                /\ next_id' = next_id + 1
                /\ next_id \notin pending
                /\ future[next_id].state = "none"
                /\ \A i \in WrittenIds : i < next_id
                /\ pending' = pending \cup {next_id}
                /\ future'[next_id].state = "pending"]_vars
    /\ [][pending' \ pending \subseteq {next_id}]_vars
    /\ [](\A i \in pending : i < next_id)
    /\ [](\A i, j \in 1..Len(stdin) :
            (stdin[i].id # NoId /\ stdin[i].id = stdin[j].id) => i = j)
    /\ [](\A c, d \in Callers :
            (c # d /\ task[c].id # NoId) => task[c].id # task[d].id)

\* Three requests have been registered and two of them are pending together.
C27_Witness ==
    /\ next_id = 4
    /\ WrittenIds = {1, 2, 3}
    /\ Cardinality(pending) = 2

\* C28: a turn of the reader on a line that is not a response to a pending
\* request (blank, not JSON, without id, or with an id that is not in the
\* pending map) leaves the reader running and changes neither the pending
\* map nor any future nor any caller; the reader ends only at the end of
\* the stream or a read error, or when close() cancels it.
C28_ReaderSkipsOtherLines ==
    /\ [][\A line \in Lines :
            (~Matches(line) /\ ReadLine(line)) =>
                /\ reader' = "running"
                /\ pending' = pending
                /\ future' = future
                /\ task' = task]_vars
    /\ [][(reader = "running" /\ reader' # "running") => (ReadEnd \/ Close)]_vars

\* The reader is running with one request answered and another pending: a
\* second response to the answered one is a line with an id the map does not
\* hold, and reading it leaves this state as it is.
C28_Witness ==
    /\ reader = "running"
    /\ closePc = "idle"
    /\ \E i \in Ids : WasSent(i) /\ i \notin pending /\ future[i].state = "result"
    /\ \E c \in Callers : task[c].pc = "req_wait" /\ task[c].id \in pending

\* C29: a step that changes the pending map or the id counter is a step of
\* the task that holds the lock.
C29_MapChangedUnderLock ==
    [][(pending' # pending \/ next_id' # next_id) =>
          \E c \in Callers : lock' = c /\ task'[c] # task[c]]_vars

\* C29, amended: the id counter changes and an id enters the pending map only
\* in a step in which a sender takes the free lock; a step that removes an id
\* from the map, by the reader or at a timeout, neither takes nor releases
\* the lock.
C29_RegistrationUnderLock ==
    /\ [][(next_id' # next_id \/ pending' \ pending # {}) =>
            /\ lock = NoOne
            /\ \E c \in Callers : lock' = c /\ task'[c] # task[c]
            /\ pending' = pending \cup {next_id}
            /\ next_id' = next_id + 1]_vars
    /\ [][(pending' # pending /\ pending' \subseteq pending) =>
            lock' = lock]_vars

\* The reader has removed the entry of a request and completed its future
\* while the sender of that request was still inside "async with self._lock",
\* waiting for its drain.
C29_Witness ==
    \E c \in Callers :
        /\ lock = c
        /\ task[c].pc = "req_drain"
        /\ task[c].id \notin pending
        /\ future[task[c].id].state = "result"

\* The positions of a task whose request is registered and not yet ended.
SentPcs == {"init_drain", "init_wait", "init_cancelled",
            "req_drain", "req_wait", "req_cancelled"}

C31_BothTasksEndWithClose ==
    closePc = "returned" => (reader = "done" /\ stderr_task = "done")

\* The number of process.kill() calls in a log of close().
Kills(log) == Cardinality({k \in 1..Len(log) : log[k] = "kill"})

\* A step of close() that calls process.kill().
KillIssued == Kills(closeLog') > Kills(closeLog)

C33_QueueBounded ==
    \E capacity \in 1..(MaxLines - 1) : Len(stderr_queue) <= capacity

\* A caller that has written an initialize request and has not yet left
\* _initialize_connection.
InHandshake(c) ==
    task[c].pc \in {"init_drain", "init_wait", "init_cancelled", "notif_lock",
                    "notif_drain"}

\* C34: of the user-level calls issued together on a client whose handshake
\* is not complete one runs the handshake and the others wait for it: never
\* are two callers each inside a handshake of their own, and the pipe never
\* carries two initialize requests that are both unanswered.
C34_OneHandshakeForConcurrentCalls ==
    /\ \A c, d \in Callers : (c # d /\ InHandshake(c)) => ~InHandshake(d)
    /\ \A i, j \in 1..Len(stdin) :
          (i < j /\ stdin[i].method = "initialize"
                 /\ stdin[j].method = "initialize")
              => future[stdin[i].id].state # "pending"

\* A caller suspended in wait_for on a future nobody has completed.
StillWaiting(c) ==
    /\ task[c].pc \in {"init_wait", "req_wait"}
    /\ future[task[c].id].state = "pending"

\* C35: a message whose id matches a pending request completes the request
\* when it is read; no caller is left waiting for its timeout on a request
\* that the reader has taken out of the pending map.
C35_MatchingMessageCompletes ==
    \A c \in Callers : StillWaiting(c) => task[c].id \in pending

\* A caller between the entry of _send_request and its return or raise, the
\* id allocated.
InSendRequest(c) ==
    task[c].pc \in {"init_drain", "req_drain", "init_wait", "req_wait",
                    "init_cancelled", "req_cancelled"}

\* C36: once _send_request has returned or raised, whatever the reason, its
\* id is not in the pending map: every id in the map is the id of a request
\* whose caller is still inside _send_request.
C36_PendingOnlyWhileWaiting ==
    \A i \in pending : \E c \in Callers : InSendRequest(c) /\ task[c].id = i

\* C37: when close() has returned no request is left pending: the requests
\* that were in flight have been completed with an error and taken out of
\* the pending map, and no caller is left waiting for its own timeout.
C37_CloseFailsPendingRequests ==
    closePc = "returned" =>
        /\ pending = {}
        /\ \A c \in Callers : ~StillWaiting(c)

\* C38: the outcome of every tool call the loop executes is presented to the
\* provider in a later call of the same run: a tool call of the run is either
\* about to be executed, or executed with the provider about to be called on
\* the prompt built from it; the run never ends on an executed tool call.
C38_ExecutedOutputReachesModel ==
    llm_response.kind = "call" => loopPc \in {"tool", "ask"}

\* The HTTP request behind the last execute_tool call failed: no connection,
\* or an error status.
SseRequestFailed == sse_ret.outcome \in {"error_status", "unreachable"}

\* C39: when the HTTP request behind execute_tool of an event-stream client
\* fails, what execute_tool returns carries the error; it is never the empty
\* result of a call that succeeded.
C39_SseFailureCarriesError ==
    SseRequestFailed =>
        /\ sse_ret.out.kind = "return"
        /\ Has(sse_ret.out.val, "error")
        /\ sse_ret.out.val # Obj(<<>>)

\* C40: from the second iteration on the prompt the provider is called with
\* is built from the outcome of the tool call just before it and from nothing
\* else: the fixed text, the call and its serialized output, or the error
\* text with the message of what the call raised; the user's prompt and the
\* outputs of earlier calls have no part in it.
C40_PromptFromLastCallOnly ==
    [][(loopPc = "tool" /\ loopPc' = "ask") =>
         /\ loop_i' >= 1
         /\ IF ExecutionRaises
            THEN \E stderr_messages \in StderrInputs :
                   current_prompt' = ErrorPrompt(llm_response, RaisedMessage,
                                                 stderr_messages)
            ELSE current_prompt' = OutputPromptHead(llm_response)
                                     \o Truncate(json_dumps(tool_result'))]_vars

\* The provider is about to be called a third time: two tool calls have been
\* executed, the later one a search that returned, and the prompt is the one
\* built from its output.
C40_Witness ==
    /\ loopPc = "ask"
    /\ loop_i = 2
    /\ llm_response.tool_name = "brave_web_search"
    /\ ~ExecutionRaises
    /\ Has(tool_result, "result")
    /\ current_prompt = OutputPromptHead(llm_response)
                          \o Truncate(json_dumps(tool_result))

====
